---- MODULE Spec2Model ----
(***************************************************************************)
(* Red-light violation pipeline of VideoController._run                    *)
(* (qt_app_pyside1/controllers/video_controller_finale.py).                *)
(*                                                                         *)
(* One step of the model is one pass of the processing loop over a frame:  *)
(* traffic-light presence, line location, track update, cleanup, violation *)
(* evaluation, traffic-light colour resolution, in the order of the code.  *)
(*                                                                         *)
(* The file defines class VideoController three times.  The frame pass of  *)
(* the first definition (lines 423-1381) and of the last one (2944-3909,   *)
(* the one Python binds to the name) are the same code, except that the    *)
(* last class has no method _cleanup_old_vehicle_data: there the call at   *)
(* line 3426 raises AttributeError, which the handler at 3428 swallows.    *)
(* The variable revision says which of the two definitions is running.     *)
(*                                                                         *)
(* Positions are the centre y of a track's bbox, in whole pixels.  Python  *)
(* None is NoneVal for numbers and "none" for colours.                     *)
(***************************************************************************)
EXTENDS Integers, Sequences, FiniteSets, TLC

VARIABLES
    revision,               \* which class definition runs: 1 or 3
    frame_count,            \* self.frame_count
    vehicle_history,        \* self.vehicle_history: track id -> deque of y
    vehicle_statuses,       \* self.vehicle_statuses: track id -> status dict
    latest_traffic_light,   \* self.latest_traffic_light
    has_traffic_lights,     \* locals of the last frame pass ...
    violation_line_y,
    tracked_vehicles,       \* track id -> [center_y, is_moving, is_violation]
    violations,             \* records handed to violation_detected.emit
    violating_vehicle_ids,
    emitted,                \* number of violation_detected.emit calls (scenario runs)
    frame_lights,           \* the traffic-light detections of the last frame pass
    \* ---- the controller around the frame pass
    source_type,            \* what self.source is: "file", "camera" or "url"
    os_name,                \* os.name
    running,                \* self._running
    thread,                 \* self.thread: "idle", "run" (inside _run), "events"
    active_runs,            \* executions of _run in progress
    pc,                     \* where _run stands: "none", "open", "read", "frame"
    cap,                    \* the capture: "none", "open", "released"
    open_attempts,          \* cv2.VideoCapture calls made by this run
    frame_error_count,      \* the local of the same name
    read_failures,          \* failed reads of this run, consecutive or not
    frames_read,            \* successful reads of this run
    error_status,           \* stats_ready emissions carrying 'error' in this run
    halt_reason,            \* why the last run ended, "none" while none has
    last_failure,           \* collaborator that raised in the last frame pass
    mutex,                  \* holder of self.mutex, "free" if none
    current_frame,          \* self.current_frame: NoneVal or a frame number
    snap_pc,                \* capture_snapshot: "idle", "checked"
    render_pc,              \* _process_frame: "idle", "locked", "finally"
    render_timer,           \* self.render_timer is active
    gui,                    \* the control call in progress on the caller's side
    probe                   \* arguments and result of a function applied on its own

frameVars == <<revision, frame_count, vehicle_history, vehicle_statuses,
               latest_traffic_light, has_traffic_lights, violation_line_y,
               tracked_vehicles, violations, violating_vehicle_ids,
               emitted, frame_lights>>

ctlVars == <<source_type, os_name, running, thread, active_runs, pc, cap,
             open_attempts, frame_error_count, read_failures, frames_read,
             error_status, halt_reason, last_failure, mutex, current_frame,
             snap_pc, render_pc, render_timer, gui>>

workerVars == <<thread, active_runs, pc, cap, open_attempts, frame_error_count,
                read_failures, frames_read, error_status, halt_reason,
                last_failure>>

vars == <<frameVars, ctlVars, probe>>

\* ------------------------------------------------------------------ constants
position_history_size == 20
crossing_check_window == 8
max_position_jump == 50
\* self.movement_threshold = 1.5, kept exact by scaling: 2 * 1.5
movement_threshold_x2 == 3
\* self.movement_threshold * 1.5 = 2.25, scaled by 4
movement_threshold_5_x4 == 9
recent_movement_size == 4
violation_history_size == 5
suspicious_jumps_reset == 2
suspicious_jumps_allowed == 1
max_retries == 3
max_consecutive_errors == 10

NoneVal == -1

\* ------------------------------------------------------------------ bounds
MaxFrames == 5
MaxFramesVisible == 7
MaxFramesLong == 24
MaxFramesScenario == 11
MaxScanLen == 9
MaxFramesLights == 2
MaxLightsPerFrame == 2
MaxReadFailures == 11
MaxFramesRead == 2
MaxThreadsReadFailures == 1
MaxFramesStop == 3
MaxLabelLen == 3
MaxFramesJump == 4
MaxFramesSlow == 6
MaxFramesMatch == 5
MaxFramesErratic == 5
MaxFramesSession == 5

Revisions == {1, 3}
TrackIds == {1}
Ys == {0, 40, 100}
LineYs == {20}
Colors == {"red", "yellow", "green", "unknown"}
FrameColors == {"red", "green"}
Confs == {1}
LightCounts == {0, 1}

\* ------------------------------------------------------------------ helpers
Abs(x) == IF x < 0 THEN -x ELSE x

Min(a, b) == IF a < b THEN a ELSE b

EmptyMap == [x \in {} |-> 0]

\* sum(list of booleans)
RECURSIVE CountTrue(_)
CountTrue(s) ==
    IF s = <<>> THEN 0
    ELSE (IF Head(s) THEN 1 ELSE 0) + CountTrue(Tail(s))

\* (mutant) a full deque refuses the new item instead of dropping the oldest
DequeAppend_KeepOldest(dq, x, maxlen) ==
    IF Len(dq) >= maxlen THEN dq ELSE Append(dq, x)

\* deque(maxlen=n).append(x): a full deque drops its oldest (leftmost) item
DequeAppend(dq, x, maxlen) ==
    LET a == Append(dq, x)
    IN  IF Len(a) > maxlen THEN Tail(a) ELSE a

\* lst.append(x); if len(lst) > cap: lst.pop(0)
ListAppendPop(lst, x, cap_len) ==
    LET a == Append(lst, x)
    IN  IF Len(a) > cap_len THEN Tail(a) ELSE a

\* ------------------------------------------------------------------ track update
NewStatus ==
    [recent_movement |-> <<>>,
     violation_history |-> <<>>,
     crossed_during_red |-> FALSE,
     last_position |-> NoneVal,
     suspicious_jumps |-> 0]

\* (mutant) a frame without a large jump clears the count
JumpCheck_Forgiving(st, center_y) ==
    IF st.last_position # NoneVal
       /\ Abs(center_y - st.last_position) > max_position_jump
    THEN LET n == st.suspicious_jumps + 1
         IN  IF n > suspicious_jumps_reset
             THEN [st EXCEPT !.crossed_during_red = FALSE, !.suspicious_jumps = 0]
             ELSE [st EXCEPT !.suspicious_jumps = n]
    ELSE [st EXCEPT !.suspicious_jumps = 0]

\* jump check of a track against its last recorded position
JumpCheck(st, center_y) ==
    IF st.last_position # NoneVal
       /\ Abs(center_y - st.last_position) > max_position_jump
    THEN LET n == st.suspicious_jumps + 1
         IN  IF n > suspicious_jumps_reset
             THEN [st EXCEPT !.crossed_during_red = FALSE, !.suspicious_jumps = 0]
             ELSE [st EXCEPT !.suspicious_jumps = n]
    ELSE st

\* (mutant) only the comparison over 3 samples is made
MovementDetected_ThreeOnly(h) ==
    Len(h) >= 3 /\ 2 * Abs(h[Len(h)] - h[Len(h) - 2]) > movement_threshold_x2

MovementDetected(h) ==
    LET n == Len(h)
    IN  \/ (n >= 3 /\ 2 * Abs(h[n] - h[n - 2]) > movement_threshold_x2)
        \/ (n >= 5 /\ 4 * Abs(h[n] - h[n - 4]) > movement_threshold_5_x4)

IsMoving(recent_movement) ==
    /\ Len(recent_movement) >= 2
    /\ 2 * CountTrue(recent_movement) >= Len(recent_movement)

\* one pass of the loop body "for track in tracks" for a track at center_y:
\* the track's history and status afterwards
TrackHistory(hist, center_y) == DequeAppend(hist, center_y, position_history_size)

\* what follows the append to the history h: last_position and recent_movement
RecordMovement(j, h) ==
    [j EXCEPT !.last_position = h[Len(h)],
              !.recent_movement =
                  ListAppendPop(j.recent_movement, MovementDetected(h),
                                recent_movement_size)]

TrackStatus(st, hist, center_y) ==
    RecordMovement(JumpCheck(st, center_y), TrackHistory(hist, center_y))

\* ------------------------------------------------------------------ crossing scan
\* (mutant) the scan does not stop at the first match: the oldest one is kept
RECURSIVE ScanFrom_NoBreak(_, _, _, _)
ScanFrom_NoBreak(h, line, i, window_size) ==
    IF i >= window_size THEN 0
    ELSE LET later == ScanFrom_NoBreak(h, line, i + 1, window_size)
         IN  IF later # 0 THEN later
             ELSE IF h[Len(h) - i] < line /\ h[Len(h) - i + 1] >= line THEN i
             ELSE 0

\* for i in range(1, window_size): first i with prev_y < line <= curr_y, else 0
RECURSIVE ScanFrom(_, _, _, _)
ScanFrom(h, line, i, window_size) ==
    IF i >= window_size THEN 0
    ELSE LET prev_y == h[Len(h) - i]
             curr_y == h[Len(h) - i + 1]
         IN  IF prev_y < line /\ curr_y >= line THEN i
             ELSE ScanFrom(h, line, i + 1, window_size)

\* (mutant) only the newest pair of samples is examined
CrossingScan_NewestPair(h, line) ==
    IF Len(h) >= 2 THEN ScanFrom(h, line, 1, 2) ELSE 0

\* frames_ago of the crossing found, 0 when line_crossed_in_window is False
CrossingScan(h, line) ==
    IF Len(h) >= 2
    THEN ScanFrom(h, line, 1, Min(crossing_check_window, Len(h)))
    ELSE 0

CrossingDetails(h, line) ==
    LET i == CrossingScan(h, line)
    IN  [frames_ago |-> i, prev_y |-> h[Len(h) - i], curr_y |-> h[Len(h) - i + 1]]

\* crossing_details after the scan, None when no pair qualified
NoCrossing == [frames_ago |-> 0]

ScanResult(h, line) ==
    IF CrossingScan(h, line) = 0 THEN NoCrossing ELSE CrossingDetails(h, line)

\* ------------------------------------------------------------------ evaluator
ActivelyCrossing(h, line, is_moving, is_red_light) ==
    CrossingScan(h, line) # 0 /\ is_moving /\ is_red_light

\* (mutant) the record is emitted for a stopped vehicle too
EmitsRecord_Stopped(st, h, line, is_moving, is_red_light) ==
    /\ CrossingScan(h, line) # 0 /\ is_red_light
    /\ st.suspicious_jumps <= suspicious_jumps_allowed

\* a record is appended to violations and the id to violating_vehicle_ids
EmitsRecord(st, h, line, is_moving, is_red_light) ==
    /\ ActivelyCrossing(h, line, is_moving, is_red_light)
    /\ st.suspicious_jumps <= suspicious_jumps_allowed

\* (mutant) the flag is not reset when the light read is not red
CrossedAfter_NoReset(st, h, line, is_moving, is_red_light) ==
    IF EmitsRecord(st, h, line, is_moving, is_red_light)
    THEN TRUE ELSE st.crossed_during_red

\* (mutant) the flag is set without looking at suspicious_jumps
CrossedAfter_Unvalidated(st, h, line, is_moving, is_red_light) ==
    IF ~is_red_light THEN FALSE
    ELSE IF ActivelyCrossing(h, line, is_moving, is_red_light) THEN TRUE
    ELSE st.crossed_during_red

\* (mutant) the flag is what the evaluator found in this frame
CrossedAfter_NotSticky(st, h, line, is_moving, is_red_light) ==
    EmitsRecord(st, h, line, is_moving, is_red_light)

\* (mutant) the flag is set only for a crossing by the newest pair of samples
CrossedAfter_NewestOnly(st, h, line, is_moving, is_red_light) ==
    LET marked == IF EmitsRecord(st, h, line, is_moving, is_red_light)
                     /\ CrossingScan(h, line) = 1
                  THEN TRUE ELSE st.crossed_during_red
    IN  IF ~is_red_light THEN FALSE ELSE marked

\* crossed_during_red after the evaluator's pass over one track
CrossedAfter(st, h, line, is_moving, is_red_light) ==
    LET marked == IF EmitsRecord(st, h, line, is_moving, is_red_light)
                  THEN TRUE ELSE st.crossed_during_red
    IN  IF ~is_red_light THEN FALSE ELSE marked

EvalStatus(st, h, line, is_moving, is_red_light) ==
    [st EXCEPT
        !.crossed_during_red = CrossedAfter(st, h, line, is_moving, is_red_light),
        !.violation_history =
            ListAppendPop(st.violation_history,
                          ActivelyCrossing(h, line, is_moving, is_red_light),
                          violation_history_size)]

ViolationRecord(id, h, line) ==
    [track_id |-> id, line_position |-> line, movement |-> CrossingDetails(h, line)]

\* ------------------------------------------------------------------ light resolver
\* a light is classified when its detection carries traffic_light_color after
\* the drawing loop, and drawn when the loop reached the assignment to
\* self.latest_traffic_light for it

\* (mutant) the drawing loop starts from an unknown colour
DrawLoop_Forgets(latest, lights) ==
    IF lights = <<>> THEN [color |-> "unknown", confidence |-> 0]
    ELSE LET l == lights[Len(lights)]
         IN  IF l.classified /\ l.drawn
             THEN [color |-> l.color, confidence |-> l.confidence]
             ELSE [color |-> "unknown", confidence |-> 0]

\* the drawing loop: every classified light overwrites latest_traffic_light
RECURSIVE DrawLoop(_, _)
DrawLoop(latest, lights) ==
    IF lights = <<>> THEN latest
    ELSE LET l == Head(lights)
         IN  DrawLoop(IF l.classified /\ l.drawn
                      THEN [color |-> l.color, confidence |-> l.confidence]
                      ELSE latest,
                      Tail(lights))

RedConfs(lights) ==
    {lights[i].confidence : i \in {k \in 1..Len(lights) :
                                     lights[k].classified /\ lights[k].color = "red"}}

MaxOf(S) == CHOOSE m \in S : \A x \in S : x <= m

\* (mutant) no consensus step: the last light drawn wins
ResolveLight_LastWins(latest, lights) == DrawLoop(latest, lights)

\* latest_traffic_light at the end of the frame pass
ResolveLight(latest, lights) ==
    IF RedConfs(lights) # {}
    THEN [color |-> "red", confidence |-> MaxOf(RedConfs(lights))]
    ELSE DrawLoop(latest, lights)

\* ------------------------------------------------------------------ cleanup
\* ids left in vehicle_history / vehicle_statuses after the cleanup call
CleanupKeeps(rev, known, current_track_ids) ==
    IF rev = 1 THEN known \cap current_track_ids ELSE known

\* ------------------------------------------------------------------ gate
\* (mutant) the evaluator runs whenever vehicles are tracked
EvaluatorRuns_Ungated(has_tl, vline, ids) == ids # {}

\* if has_traffic_lights and violation_line_y is not None and tracked_vehicles
EvaluatorRuns(has_tl, vline, ids) == has_tl /\ vline # NoneVal /\ ids # {}

\* ------------------------------------------------------------------ frame pass
\* tracks: tracker output, track id -> center y; lights: the frame's traffic
\* light detections in detection order; line: what the line locator returns.
\* The pass up to the list of violation records, before anything is drawn.
FrameEvaluate(tracks, lights, line) ==
    LET ids     == DOMAIN tracks
        has_tl  == Len(lights) > 0
        vline   == IF has_tl THEN line ELSE NoneVal
        known   == DOMAIN vehicle_history
        hist0(t) == IF t \in known THEN vehicle_history[t] ELSE <<>>
        stat0(t) == IF t \in known THEN vehicle_statuses[t] ELSE NewStatus
        hist1(t) == IF t \in ids THEN TrackHistory(hist0(t), tracks[t]) ELSE hist0(t)
        stat1(t) == IF t \in ids THEN TrackStatus(stat0(t), hist0(t), tracks[t])
                    ELSE stat0(t)
        moving(t) == IsMoving(stat1(t).recent_movement)
        keep    == CleanupKeeps(revision, known \cup ids, ids)
        runs    == EvaluatorRuns(has_tl, vline, ids)
        red     == latest_traffic_light.color = "red"
        stat2(t) == IF runs /\ t \in ids
                    THEN EvalStatus(stat1(t), hist1(t), vline, moving(t), red)
                    ELSE stat1(t)
        hits    == IF runs
                   THEN {t \in ids : EmitsRecord(stat1(t), hist1(t), vline, moving(t), red)}
                   ELSE {}
    IN  /\ frame_count' = frame_count + 1
        /\ has_traffic_lights' = has_tl
        /\ violation_line_y' = vline
        /\ vehicle_history' = [t \in keep |-> hist1(t)]
        /\ vehicle_statuses' = [t \in keep |-> stat2(t)]
        /\ tracked_vehicles' =
              [t \in ids |-> [center_y |-> tracks[t],
                              is_moving |-> moving(t),
                              is_violation |-> IF runs
                                               THEN stat2(t).crossed_during_red /\ red
                                               ELSE FALSE]]
        /\ violating_vehicle_ids' = hits
        /\ violations' = {ViolationRecord(t, hist1(t), vline) : t \in hits}
        /\ UNCHANGED revision

\* the whole pass: the draw loop resolves the light after the evaluator
FramePass(tracks, lights, line) ==
    /\ FrameEvaluate(tracks, lights, line)
    /\ latest_traffic_light' = ResolveLight(latest_traffic_light, lights)

\* ------------------------------------------------------------------ inputs
\* a traffic-light detection: the classifier's result, or its failure (the
\* exception is caught and the detection keeps no traffic_light_color)
LightUnclassified ==
    [color |-> "none", confidence |-> 0, classified |-> FALSE, drawn |-> FALSE]

LightDet ==
    [color : FrameColors, confidence : Confs, classified : {TRUE}, drawn : {TRUE}]
        \cup {LightUnclassified}

FrameLights == UNION {[1..n -> LightDet] : n \in LightCounts}

FrameTracks == UNION {[S -> Ys] : S \in SUBSET TrackIds}

\* the line locator is called only when a traffic light was detected
FrameLines(lights) == IF lights = <<>> THEN {NoneVal} ELSE LineYs \cup {NoneVal}

\* ------------------------------------------------------------------ specification
InitFrames ==
    /\ revision \in Revisions
    /\ frame_count = 0
    /\ vehicle_history = EmptyMap
    /\ vehicle_statuses = EmptyMap
    /\ latest_traffic_light = [color |-> "unknown", confidence |-> 0]
    /\ has_traffic_lights = FALSE
    /\ violation_line_y = NoneVal
    /\ tracked_vehicles = EmptyMap
    /\ violations = {}
    /\ violating_vehicle_ids = {}
    /\ emitted = 0
    /\ frame_lights = <<>>

\* no start, stop or set_source call is in progress
GuiIdle == [call |-> "none", at |-> "idle", was_running |-> FALSE]

\* the controller as __init__ leaves it
InitControl ==
    /\ running = FALSE
    /\ thread = "idle"
    /\ active_runs = 0
    /\ pc = "none"
    /\ cap = "none"
    /\ open_attempts = 0
    /\ frame_error_count = 0
    /\ read_failures = 0
    /\ frames_read = 0
    /\ error_status = 0
    /\ halt_reason = "none"
    /\ last_failure = "none"
    /\ mutex = "free"
    /\ current_frame = NoneVal
    /\ snap_pc = "idle"
    /\ render_pc = "idle"
    /\ render_timer = FALSE
    /\ gui = GuiIdle

NoProbe == [fn |-> "none"]

InitRest ==
    /\ InitFrames
    /\ InitControl
    /\ source_type = "file"
    /\ os_name = "posix"

Init == InitRest /\ probe = NoProbe

Frame ==
    /\ frame_count < MaxFrames
    /\ \E tracks \in FrameTracks, lights \in FrameLights :
          \E line \in FrameLines(lights) : FramePass(tracks, lights, line)
    /\ UNCHANGED <<emitted, frame_lights, ctlVars, probe>>

Next == Frame

Spec == Init /\ [][Next]_vars

\* ---------------------------------------------- a vehicle that stays in view
\* the tracker reports every track id in every frame
VisibleYs == {0, 100}

VisibleTracks == [TrackIds -> VisibleYs]

\* with every track reported in every frame the cleanup removes nothing in
\* either class definition: the runs of the last one stand for both
InitVisible == Init /\ revision = 3

VisibleFrame ==
    /\ frame_count < MaxFramesVisible
    /\ \E tracks \in VisibleTracks, lights \in FrameLights :
          \E line \in FrameLines(lights) : FramePass(tracks, lights, line)
    /\ UNCHANGED <<emitted, frame_lights, ctlVars, probe>>

NextVisible == VisibleFrame

SpecVisible == InitVisible /\ [][NextVisible]_vars

\* ---------------------------------------------- a long, steady drive
\* one vehicle stays in view for more frames than any history holds and moves
\* by the same amount every frame, so every recorded sample is a different
\* number; lights and line are as free as in Spec
LongTrack == CHOOSE t \in TrackIds : TRUE

LongSpeeds == {1, 60}

LongYs ==
    IF LongTrack \notin DOMAIN vehicle_history THEN {0}
    ELSE LET h == vehicle_history[LongTrack]
             n == Len(h)
         IN  IF n = 1 THEN {h[1] + v : v \in LongSpeeds}
             ELSE {h[n] + (h[n] - h[n - 1])}

LongFrame ==
    /\ frame_count < MaxFramesLong
    /\ \E y \in LongYs, lights \in FrameLights :
          \E line \in FrameLines(lights) :
              FramePass([t \in {LongTrack} |-> y], lights, line)
    /\ UNCHANGED <<emitted, frame_lights, ctlVars, probe>>

NextLong == LongFrame

SpecLong == InitVisible /\ [][NextLong]_vars

\* ---------------------------------------------- the end-to-end scenario
\* track 7 drives through the line at y = 140; a traffic light is detected in
\* every frame, classified red in frames 1-8 and green afterwards; the line
\* locator returns 140 in every frame.  After the listed positions the
\* vehicle stops, drives on, or is mis-tracked.
Scenario ==
    [track |-> 7,
     line |-> 140,
     ys |-> <<100, 105, 110, 118, 130, 150, 170, 190>>,
     red_frames |-> 8,
     frames |-> 10,
     steps |-> {0, 20, 60}]

ScenarioConfs == {1, 2}

ScenarioYs(k) ==
    IF k <= Len(Scenario.ys) THEN {Scenario.ys[k]}
    ELSE {vehicle_statuses[Scenario.track].last_position + d : d \in Scenario.steps}

ScenarioColor(k) == IF k <= Scenario.red_frames THEN "red" ELSE "green"

ScenarioFrame ==
    /\ frame_count < MaxFramesScenario
    /\ LET k == frame_count + 1
       IN  \E y \in ScenarioYs(k), c \in ScenarioConfs :
              FramePass([t \in {Scenario.track} |-> y],
                        <<[color |-> ScenarioColor(k), confidence |-> c,
                           classified |-> TRUE, drawn |-> TRUE]>>,
                        Scenario.line)
    /\ emitted' = emitted + Cardinality(violations')
    /\ UNCHANGED <<frame_lights, ctlVars, probe>>

NextScenario == ScenarioFrame

SpecScenario == Init /\ [][NextScenario]_vars

\* ---------------------------------------------- frames of traffic lights
\* frames without vehicles and with several traffic lights of any colour.
\* A light may keep a colour without being drawn: the classifier raised over a
\* colour the detector supplied, the detection has no bbox, or
\* draw_traffic_light_status raised before line 1204.
LightsColors == {"red", "yellow", "green"}

LightsConfs == {1, 2}

LightsDet ==
    [color : LightsColors, confidence : LightsConfs, classified : {TRUE}, drawn : {TRUE}]
        \cup [color : {"red", "green"}, confidence : LightsConfs,
              classified : {TRUE}, drawn : {FALSE}]
        \cup {LightUnclassified}

LightsOfFrame == UNION {[1..n -> LightsDet] : n \in 0..MaxLightsPerFrame}

LightsFrame ==
    /\ frame_count < MaxFramesLights
    /\ \E lights \in LightsOfFrame :
          /\ FramePass(EmptyMap, lights, NoneVal)
          /\ frame_lights' = lights
    /\ UNCHANGED <<emitted, ctlVars, probe>>

NextLights == LightsFrame

SpecLights == InitVisible /\ [][NextLights]_vars

\* ---------------------------------------------- the crossing scan on its own
\* the scan applied to every position history of up to MaxScanLen samples
ScanYs == {10, 20, 30}

ScanLines == {20, 25}

ScanHistories == UNION {[1..n -> ScanYs] : n \in 0..MaxScanLen}

InitScan ==
    /\ InitRest
    /\ revision = 3
    /\ \E h \in ScanHistories, line \in ScanLines :
          probe = [fn |-> "scan", position_history |-> h,
                   violation_line_y |-> line, returned |-> FALSE]

ScanCall ==
    /\ probe.fn = "scan"
    /\ ~probe.returned
    /\ probe' = [fn |-> "scan", position_history |-> probe.position_history,
                 violation_line_y |-> probe.violation_line_y, returned |-> TRUE,
                 crossing_details |-> ScanResult(probe.position_history,
                                                 probe.violation_line_y)]
    /\ UNCHANGED <<frameVars, ctlVars>>

NextScan == ScanCall

SpecScan == InitScan /\ [][NextScan]_vars

\* ================================================================ the controller
\* VideoController around the frame pass: start(), stop(), play(), pause(),
\* set_source(), the worker thread executing _run, the render callback and
\* capture_snapshot.  What a frame pass does to the per-track state is left
\* out here; a frame is a number.
Sources == {"file", "camera"}

OsNames == {"posix", "nt"}

\* backends try_open_source is called for: a camera gets a second one on Windows
Backends(src, os) == IF src = "camera" /\ os = "nt" THEN 2 ELSE 1

\* (mutant) every backend is tried twice over
AttemptsAllowed_Doubled(src, os) == 2 * max_retries * Backends(src, os)

\* attempts made before cap is None: range(1, retries + 1) for each backend
AttemptsAllowed(src, os) == max_retries * Backends(src, os)

\* the external collaborators of a frame pass
Detectors == {"detect", "update_tracking"}

Guarded == {"classifier", "line_locator", "tracker"}

\* self.mutex.unlock() by holder: unlocking a QMutex one does not hold is
\* undefined, it may release the lock of the actual holder or do nothing
UnlockOutcomes(holder) == IF mutex = holder THEN {"free"} ELSE {mutex, "free"}

\* self.thread.start(): the thread emits started, which runs _run
StartThread ==
    /\ thread' = "run"
    /\ active_runs' = active_runs + 1
    /\ pc' = "open"
    /\ cap' = "none"
    /\ open_attempts' = 0
    /\ frame_error_count' = 0
    /\ read_failures' = 0
    /\ frames_read' = 0
    /\ error_status' = 0
    /\ halt_reason' = "none"
    /\ last_failure' = "none"

\* (mutant) the thread is started whatever its state
ThreadStarts_Always(th) == TRUE

\* if not self.thread.isRunning(): self.thread.start()
ThreadStarts(th) == th = "idle"

\* _run returns: the finally clause, then the thread idles in its event loop
RunEnd(reason, released) ==
    /\ pc' = "none"
    /\ thread' = "events"
    /\ active_runs' = active_runs - 1
    /\ running' = FALSE
    /\ halt_reason' = reason
    /\ cap' = IF released THEN "released" ELSE cap

\* one pass of the loop of try_open_source, and what follows its last pass
OpenAttempt ==
    /\ pc = "open"
    /\ open_attempts' = open_attempts + 1
    /\ \E opened \in {"no", "yes", "lost"} :
          CASE opened = "yes" ->
                  /\ cap' = "open"
                  /\ pc' = "read"
                  /\ UNCHANGED <<thread, active_runs, running, halt_reason, error_status>>
            [] opened = "lost" ->
                  \* the capture is no longer open at line 506
                  /\ error_status' = error_status + 1
                  /\ RunEnd("lost_after_open", FALSE)
            [] opened = "no" ->
                  IF open_attempts' < AttemptsAllowed(source_type, os_name)
                  THEN UNCHANGED <<thread, active_runs, running, halt_reason,
                                   error_status, cap, pc>>
                  ELSE /\ error_status' = error_status + 1
                       /\ RunEnd("open_failed", FALSE)
    /\ UNCHANGED <<frame_error_count, read_failures, frames_read, last_failure>>
    /\ UNCHANGED <<frameVars, probe, source_type, os_name, mutex, current_frame,
                   snap_pc, render_pc, render_timer, gui>>

\* (mutant) a successful read leaves the error count as it is
ErrorsAfterRead_NoReset(count, ret) == IF ret THEN count ELSE count + 1

\* frame_error_count after cap.read()
ErrorsAfterRead(count, ret) == IF ret THEN 0 ELSE count + 1

\* the loop condition and cap.read()
ReadFrame ==
    /\ pc = "read"
    /\ IF ~running
       THEN /\ RunEnd("stopped", TRUE)
            /\ UNCHANGED <<frame_error_count, read_failures, frames_read>>
       ELSE \E ret \in BOOLEAN :
              /\ ret => frames_read < MaxFramesRead
              /\ ~ret => read_failures < MaxReadFailures
              /\ frame_error_count' = ErrorsAfterRead(frame_error_count, ret)
              /\ read_failures' = IF ret THEN read_failures ELSE read_failures + 1
              /\ frames_read' = IF ret THEN frames_read + 1 ELSE frames_read
              /\ IF ret
                 THEN /\ pc' = "detect"
                      /\ UNCHANGED <<thread, active_runs, running, halt_reason, cap>>
                 ELSE IF frame_error_count' >= max_consecutive_errors
                      THEN RunEnd("read_errors", TRUE)
                      ELSE UNCHANGED <<thread, active_runs, running, halt_reason,
                                       cap, pc>>
    /\ UNCHANGED <<open_attempts, error_status, last_failure>>
    /\ UNCHANGED <<frameVars, probe, source_type, os_name, mutex, current_frame,
                   snap_pc, render_pc, render_timer, gui>>

\* self.model_manager.detect and update_tracking: an exception of either is
\* caught only by the handler around the whole of _run
Detect ==
    /\ pc = "detect"
    /\ \E failure \in Detectors \cup {"none"} :
          /\ last_failure' = failure
          /\ IF failure = "none"
             THEN /\ pc' = "lock"
                  /\ UNCHANGED <<thread, active_runs, running, halt_reason, cap>>
             ELSE RunEnd("exception", FALSE)
    /\ UNCHANGED <<open_attempts, frame_error_count, read_failures, frames_read,
                   error_status>>
    /\ UNCHANGED <<frameVars, probe, source_type, os_name, mutex, current_frame,
                   snap_pc, render_pc, render_timer, gui>>

\* self.mutex.lock() before the slot is replaced
LockSlot ==
    /\ pc = "lock"
    /\ mutex = "free"
    /\ mutex' = "run"
    /\ pc' = "store"
    /\ UNCHANGED <<thread, active_runs, cap, open_attempts, frame_error_count,
                   read_failures, frames_read, error_status, halt_reason,
                   last_failure, running>>
    /\ UNCHANGED <<frameVars, probe, source_type, os_name, current_frame,
                   snap_pc, render_pc, render_timer, gui>>

\* self.current_frame = frame.copy(); self.mutex.unlock()
StoreSlot ==
    /\ pc = "store"
    /\ current_frame' = frames_read
    /\ mutex' \in UnlockOutcomes("run")
    /\ pc' = "pass"
    /\ UNCHANGED <<thread, active_runs, cap, open_attempts, frame_error_count,
                   read_failures, frames_read, error_status, halt_reason,
                   last_failure, running>>
    /\ UNCHANGED <<frameVars, probe, source_type, os_name,
                   snap_pc, render_pc, render_timer, gui>>

\* the rest of the frame pass: the classifier, the line locator and the
\* vehicle tracker are each called inside a try of their own
PassFrame ==
    /\ pc = "pass"
    /\ \E failure \in Guarded \cup {"none"} : last_failure' = failure
    /\ pc' = "read"
    /\ UNCHANGED <<thread, active_runs, cap, open_attempts, frame_error_count,
                   read_failures, frames_read, error_status, halt_reason, running>>
    /\ UNCHANGED <<frameVars, probe, source_type, os_name, mutex, current_frame,
                   snap_pc, render_pc, render_timer, gui>>

Worker == OpenAttempt \/ ReadFrame \/ Detect \/ LockSlot \/ StoreSlot \/ PassFrame

\* start(), and play() of the first class definition, which is an alias
StartBody ==
    IF ~running
    THEN /\ running' = TRUE
         /\ frame_count' = 0
         /\ render_timer' = TRUE
         /\ IF ThreadStarts(thread) THEN StartThread ELSE UNCHANGED workerVars
    ELSE UNCHANGED <<running, frame_count, render_timer, workerVars>>

Start ==
    /\ gui = GuiIdle
    /\ ~running
    /\ StartBody
    /\ UNCHANGED <<revision, vehicle_history, vehicle_statuses,
                   latest_traffic_light, has_traffic_lights, violation_line_y,
                   tracked_vehicles, violations, violating_vehicle_ids,
                   emitted, frame_lights>>
    /\ UNCHANGED <<probe, source_type, os_name, mutex, current_frame,
                   snap_pc, render_pc, gui>>

\* ---------------------------------------------- one run of the worker
\* start() is called once on a fresh controller; the source and the platform
\* are any
InitRun ==
    /\ InitFrames
    /\ InitControl
    /\ source_type \in Sources
    /\ os_name \in OsNames
    /\ probe = NoProbe

NextRun == Start \/ Worker

SpecRun == InitRun /\ [][NextRun]_vars

\* ---------------------------------------------- calls from the user interface
\* stop(): the flag and the timer, then the wait for the thread
Stop ==
    /\ gui = GuiIdle
    /\ running
    /\ running' = FALSE
    /\ render_timer' = FALSE
    /\ gui' = [call |-> "stop", at |-> "wait", was_running |-> TRUE]
    /\ UNCHANGED <<frameVars, probe, source_type, os_name, workerVars, mutex,
                   current_frame, snap_pc, render_pc>>

\* thread.quit(), thread.wait(3000), thread.terminate(): a thread that idles
\* in its event loop exits; one that is still inside _run when the wait
\* is over is terminated where it stands
StopWait ==
    /\ gui.at = "wait"
    /\ IF thread = "run"
       THEN /\ thread' = "idle"
            /\ active_runs' = 0
            /\ pc' = "none"
            /\ halt_reason' = "terminated"
       ELSE /\ thread' = "idle"
            /\ UNCHANGED <<active_runs, pc, halt_reason>>
    /\ gui' = [gui EXCEPT !.at = "clear"]
    /\ UNCHANGED <<cap, open_attempts, frame_error_count, read_failures,
                   frames_read, error_status, last_failure>>
    /\ UNCHANGED <<frameVars, probe, source_type, os_name, running, mutex,
                   current_frame, snap_pc, render_pc, render_timer>>

\* self.mutex.lock(); self.current_frame = None; self.mutex.unlock()
StopClear ==
    /\ gui.at = "clear"
    /\ mutex = "free"
    /\ current_frame' = NoneVal
    /\ gui' = IF gui.call = "stop" THEN GuiIdle ELSE [gui EXCEPT !.at = "configure"]
    /\ UNCHANGED <<frameVars, probe, source_type, os_name, running, workerVars,
                   mutex, snap_pc, render_pc, render_timer>>

\* pause() exists in the last class definition only
Pause ==
    /\ gui = GuiIdle
    /\ revision = 3
    /\ running \/ render_timer
    /\ render_timer' = FALSE
    /\ running' = FALSE
    /\ UNCHANGED <<frameVars, probe, source_type, os_name, workerVars, mutex,
                   current_frame, snap_pc, render_pc, gui>>

\* play(): an alias of start() in the first class definition, code of its
\* own in the last one
Play ==
    /\ gui = GuiIdle
    /\ ~running
    /\ IF revision = 1
       THEN StartBody
       ELSE /\ running' = TRUE
            /\ IF ThreadStarts(thread) THEN StartThread ELSE UNCHANGED workerVars
            /\ render_timer' = TRUE
            /\ UNCHANGED frame_count
    /\ UNCHANGED <<revision, vehicle_history, vehicle_statuses,
                   latest_traffic_light, has_traffic_lights, violation_line_y,
                   tracked_vehicles, violations, violating_vehicle_ids,
                   emitted, frame_lights>>
    /\ UNCHANGED <<probe, source_type, os_name, mutex, current_frame,
                   snap_pc, render_pc, gui>>

\* set_source(): was_running is recorded and a running controller is stopped
SetSourceBegin ==
    /\ gui = GuiIdle
    /\ IF running
       THEN /\ running' = FALSE
            /\ render_timer' = FALSE
            /\ gui' = [call |-> "set_source", at |-> "wait", was_running |-> TRUE]
       ELSE /\ gui' = [call |-> "set_source", at |-> "configure", was_running |-> FALSE]
            /\ UNCHANGED <<running, render_timer>>
    /\ UNCHANGED <<frameVars, probe, source_type, os_name, workerVars, mutex,
                   current_frame, snap_pc, render_pc>>

\* what _get_source_properties finds: the capture does not open, it opens
\* but yields no test frame, or it opens and a frame is read
SourceOutcomes == {"closed", "unreadable", "ok"}

\* CAP_PROP_FRAME_COUNT of the source, which _get_source_properties stores
\* in self.frame_count once the capture is open
SourceFrameCounts == {0, 2}

\* (mutant) processing is restarted whether or not the source opened
RestartsAfter_Always(success, was_running) == was_running

\* if success: ... if was_running: self.start()
RestartsAfter(success, was_running) == success /\ was_running

\* set_source() from the assignment of the source to its return
SetSourceBody(src, outcome, n) ==
    /\ source_type' = src
    /\ IF RestartsAfter(outcome = "ok", gui.was_running)
       THEN StartBody
       ELSE /\ frame_count' = IF outcome = "closed" THEN frame_count ELSE n
            /\ UNCHANGED <<running, render_timer, workerVars>>
    /\ gui' = GuiIdle
    /\ UNCHANGED <<revision, vehicle_history, vehicle_statuses,
                   latest_traffic_light, has_traffic_lights, violation_line_y,
                   tracked_vehicles, violations, violating_vehicle_ids,
                   emitted, frame_lights>>
    /\ UNCHANGED <<os_name, mutex, current_frame, snap_pc, render_pc>>

\* set_source(): the new source, _get_source_properties, and the restart
SetSourceConfigure ==
    /\ gui.at = "configure"
    /\ \E src \in Sources, outcome \in SourceOutcomes, n \in SourceFrameCounts :
          SetSourceBody(src, outcome, n)
    /\ UNCHANGED probe

\* ---------------------------------------------- readers of the display slot
\* _process_frame: self.mutex.lock()
RenderLock ==
    /\ render_timer
    /\ render_pc = "idle"
    /\ mutex = "free"
    /\ mutex' = "render"
    /\ render_pc' = "locked"
    /\ UNCHANGED <<frameVars, probe, source_type, os_name, running, workerVars,
                   current_frame, snap_pc, render_timer, gui>>

\* _process_frame: the slot is read and the mutex unlocked
RenderRead ==
    /\ render_pc = "locked"
    /\ mutex' \in UnlockOutcomes("render")
    /\ render_pc' = IF revision = 3 THEN "finally" ELSE "idle"
    /\ UNCHANGED <<frameVars, probe, source_type, os_name, running, workerVars,
                   current_frame, snap_pc, render_timer, gui>>

\* _process_frame of the last class definition: finally: self.mutex.unlock()
RenderFinally ==
    /\ render_pc = "finally"
    /\ mutex' \in UnlockOutcomes("render")
    /\ render_pc' = "idle"
    /\ UNCHANGED <<frameVars, probe, source_type, os_name, running, workerVars,
                   current_frame, snap_pc, render_timer, gui>>

\* capture_snapshot: if self.current_frame is not None
SnapCheck ==
    /\ snap_pc = "idle"
    /\ current_frame # NoneVal
    /\ snap_pc' = "checked"
    /\ UNCHANGED <<frameVars, probe, source_type, os_name, running, workerVars,
                   mutex, current_frame, render_pc, render_timer, gui>>

\* capture_snapshot: return self.current_frame.copy()
SnapCopy ==
    /\ snap_pc = "checked"
    /\ snap_pc' = "idle"
    /\ UNCHANGED <<frameVars, probe, source_type, os_name, running, workerVars,
                   mutex, current_frame, render_pc, render_timer, gui>>

\* ---------------------------------------------- the controller in use
\* any sequence of control calls, with the worker thread, the render
\* callback and capture_snapshot running in between
ThreadsWorker ==
    /\ Worker
    /\ read_failures' <= MaxThreadsReadFailures
    /\ last_failure' \in {"none", "detect"}

NextThreads ==
    \/ Start \/ Stop \/ StopWait \/ StopClear \/ Pause \/ Play
    \/ SetSourceBegin \/ SetSourceConfigure
    \/ ThreadsWorker
    \/ RenderLock \/ RenderRead \/ RenderFinally
    \/ SnapCheck \/ SnapCopy

SpecThreads == Init /\ [][NextThreads]_vars

\* ---------------------------------------------- set_source() observed
\* what a call of set_source returned and the status it emitted
SetSourceResult(outcome, was_running) ==
    [fn |-> "set_source",
     was_running |-> was_running,
     opened |-> outcome = "ok",
     returned |-> outcome = "ok",
     source_changed |-> outcome = "ok"]

SetSourceReturn ==
    /\ gui.at = "configure"
    /\ \E src \in Sources, outcome \in SourceOutcomes, n \in SourceFrameCounts :
          /\ SetSourceBody(src, outcome, n)
          /\ probe' = SetSourceResult(outcome, gui.was_running)

NextSource ==
    \/ Start \/ Stop \/ StopWait \/ StopClear \/ Pause \/ Play
    \/ SetSourceBegin \/ SetSourceReturn
    \/ ThreadsWorker

SpecSource == Init /\ [][NextSource]_vars

\* ---------------------------------------------- stop() during a frame pass
\* the frame pass in the steps of its statements, so that the thread can be
\* terminated between them.  One vehicle is tracked in every frame; the
\* frame's lights and line are drawn where the pass first uses them.
StopLine == 20

StopLights ==
    {<<[color |-> c, confidence |-> 1, classified |-> TRUE, drawn |-> TRUE]>> :
        c \in FrameColors}

\* for track in tracks, down to self.vehicle_history[track_id].append(center_y)
TrackAppend ==
    /\ pc = "pass"
    /\ \A t \in DOMAIN vehicle_history : Len(vehicle_history[t]) < MaxFramesStop
    /\ \E tracks \in [TrackIds -> VisibleYs] :
          LET ids   == DOMAIN tracks
              known == DOMAIN vehicle_history
              hist0(t) == IF t \in known THEN vehicle_history[t] ELSE <<>>
              stat0(t) == IF t \in known THEN vehicle_statuses[t] ELSE NewStatus
          IN  /\ vehicle_history' =
                    [t \in known \cup ids |->
                        IF t \in ids THEN TrackHistory(hist0(t), tracks[t])
                        ELSE hist0(t)]
              /\ vehicle_statuses' =
                    [t \in known \cup ids |->
                        IF t \in ids THEN JumpCheck(stat0(t), tracks[t])
                        ELSE stat0(t)]
    /\ pc' = "status"
    /\ UNCHANGED <<revision, frame_count, latest_traffic_light, has_traffic_lights,
                   violation_line_y, tracked_vehicles, violations,
                   violating_vehicle_ids, emitted, frame_lights>>
    /\ UNCHANGED <<thread, active_runs, cap, open_attempts, frame_error_count,
                   read_failures, frames_read, error_status, halt_reason,
                   last_failure, running>>
    /\ UNCHANGED <<probe, source_type, os_name, mutex, current_frame,
                   snap_pc, render_pc, render_timer, gui>>

\* the rest of the loop body: last_position, recent_movement, is_moving
TrackFinish ==
    /\ pc = "status"
    /\ vehicle_statuses' =
          [t \in DOMAIN vehicle_statuses |->
              RecordMovement(vehicle_statuses[t], vehicle_history[t])]
    /\ tracked_vehicles' =
          [t \in DOMAIN vehicle_history |->
              [center_y |-> vehicle_history[t][Len(vehicle_history[t])],
               is_moving |-> IsMoving(vehicle_statuses'[t].recent_movement),
               is_violation |-> FALSE]]
    /\ pc' = "evaluate"
    /\ UNCHANGED <<revision, frame_count, vehicle_history, latest_traffic_light,
                   has_traffic_lights, violation_line_y, violations,
                   violating_vehicle_ids, emitted, frame_lights>>
    /\ UNCHANGED <<thread, active_runs, cap, open_attempts, frame_error_count,
                   read_failures, frames_read, error_status, halt_reason,
                   last_failure, running>>
    /\ UNCHANGED <<probe, source_type, os_name, mutex, current_frame,
                   snap_pc, render_pc, render_timer, gui>>

\* the cleanup, the evaluator and the light resolver, to the end of the pass
EvaluateFrame ==
    /\ pc = "evaluate"
    /\ \E lights \in StopLights :
          LET ids  == DOMAIN tracked_vehicles
              keep == CleanupKeeps(revision, DOMAIN vehicle_history, ids)
              runs == EvaluatorRuns(TRUE, StopLine, ids)
              red  == latest_traffic_light.color = "red"
              moving(t) == tracked_vehicles[t].is_moving
              hits == IF runs
                      THEN {t \in ids : EmitsRecord(vehicle_statuses[t],
                                                    vehicle_history[t], StopLine,
                                                    moving(t), red)}
                      ELSE {}
              stat2(t) == IF runs /\ t \in ids
                          THEN EvalStatus(vehicle_statuses[t], vehicle_history[t],
                                          StopLine, moving(t), red)
                          ELSE vehicle_statuses[t]
          IN  /\ has_traffic_lights' = TRUE
              /\ violation_line_y' = StopLine
              /\ vehicle_history' = [t \in keep |-> vehicle_history[t]]
              /\ vehicle_statuses' = [t \in keep |-> stat2(t)]
              /\ tracked_vehicles' =
                    [t \in ids |->
                        [tracked_vehicles[t] EXCEPT
                            !.is_violation = IF runs
                                             THEN stat2(t).crossed_during_red /\ red
                                             ELSE FALSE]]
              /\ violating_vehicle_ids' = hits
              /\ violations' =
                    {ViolationRecord(t, vehicle_history[t], StopLine) : t \in hits}
              /\ latest_traffic_light' = ResolveLight(latest_traffic_light, lights)
    /\ frame_count' = frame_count + 1
    /\ pc' = "read"
    /\ UNCHANGED <<revision, emitted, frame_lights>>
    /\ UNCHANGED <<thread, active_runs, cap, open_attempts, frame_error_count,
                   read_failures, frames_read, error_status, halt_reason,
                   last_failure, running>>
    /\ UNCHANGED <<probe, source_type, os_name, mutex, current_frame,
                   snap_pc, render_pc, render_timer, gui>>

StopWorker ==
    \/ /\ OpenAttempt \/ ReadFrame \/ Detect \/ LockSlot \/ StoreSlot
       /\ read_failures' <= MaxThreadsReadFailures
       /\ last_failure' = "none"
    \/ TrackAppend \/ TrackFinish \/ EvaluateFrame

NextStop == Start \/ Stop \/ StopWait \/ StopClear \/ StopWorker

SpecStop == Init /\ [][NextStop]_vars

\* ---------------------------------------------- normalize_class_name
\* a label is a string, written as the sequence of its characters, or None
UpperLetters ==
    <<"A", "B", "C", "D", "E", "F", "G", "H", "I", "J", "K", "L", "M",
      "N", "O", "P", "Q", "R", "S", "T", "U", "V", "W", "X", "Y", "Z">>

LowerLetters ==
    <<"a", "b", "c", "d", "e", "f", "g", "h", "i", "j", "k", "l", "m",
      "n", "o", "p", "q", "r", "s", "t", "u", "v", "w", "x", "y", "z">>

LowerChar(c) ==
    IF \E i \in 1..26 : UpperLetters[i] = c
    THEN LowerLetters[CHOOSE i \in 1..26 : UpperLetters[i] = c]
    ELSE c

\* str.lower()
Lower(name) == [i \in 1..Len(name) |-> LowerChar(name[i])]

NoneLabel == [missing |-> TRUE, chars |-> <<>>]

Str(chars) == [missing |-> FALSE, chars |-> chars]

TrafficLightNames ==
    {<<"t","r","a","f","f","i","c"," ","l","i","g","h","t">>,
     <<"t","r","a","f","f","i","c","l","i","g","h","t">>,
     <<"t","r","a","f","f","i","c","_","l","i","g","h","t">>,
     <<"t","l">>,
     <<"s","i","g","n","a","l">>}

CarNames ==
    {<<"c","a","r">>, <<"a","u","t","o">>,
     <<"a","u","t","o","m","o","b","i","l","e">>}

TruckNames == {<<"t","r","u","c","k">>}

BusNames == {<<"b","u","s">>}

MotorcycleNames ==
    {<<"m","o","t","o","r","c","y","c","l","e">>,
     <<"s","c","o","o","t","e","r">>,
     <<"m","o","t","o","r","b","i","k","e">>,
     <<"b","i","k","e">>}

PersonNames ==
    {<<"p","e","r","s","o","n">>,
     <<"p","e","d","e","s","t","r","i","a","n">>,
     <<"h","u","m","a","n">>}

\* (mutant) the names are matched as given and a label that matches none is
\* returned in lower case
normalize_class_name_Lowered(class_name) ==
    IF class_name.missing \/ class_name.chars = <<>> THEN Str(<<>>)
    ELSE LET name == class_name.chars
         IN  IF name \in TrafficLightNames
             THEN Str(<<"t","r","a","f","f","i","c"," ","l","i","g","h","t">>)
             ELSE IF name \in CarNames THEN Str(<<"c","a","r">>)
             ELSE IF name \in TruckNames THEN Str(<<"t","r","u","c","k">>)
             ELSE IF name \in BusNames THEN Str(<<"b","u","s">>)
             ELSE IF name \in MotorcycleNames
             THEN Str(<<"m","o","t","o","r","c","y","c","l","e">>)
             ELSE IF name \in PersonNames
             THEN Str(<<"p","e","r","s","o","n">>)
             ELSE Str(Lower(name))

normalize_class_name(class_name) ==
    IF class_name.missing \/ class_name.chars = <<>> THEN Str(<<>>)
    ELSE LET name_lower == Lower(class_name.chars)
         IN  IF name_lower \in TrafficLightNames
             THEN Str(<<"t","r","a","f","f","i","c"," ","l","i","g","h","t">>)
             ELSE IF name_lower \in CarNames THEN Str(<<"c","a","r">>)
             ELSE IF name_lower \in TruckNames THEN Str(<<"t","r","u","c","k">>)
             ELSE IF name_lower \in BusNames THEN Str(<<"b","u","s">>)
             ELSE IF name_lower \in MotorcycleNames
             THEN Str(<<"m","o","t","o","r","c","y","c","l","e">>)
             ELSE IF name_lower \in PersonNames
             THEN Str(<<"p","e","r","s","o","n">>)
             ELSE class_name

\* labels of up to MaxLabelLen characters over a few letters in both cases,
\* among them car, tl and bus, and None
LabelChars == {"c", "a", "r", "t", "l", "b", "u", "s", "C", "A", "T", "B"}

Labels ==
    {NoneLabel} \cup {Str(w) : w \in UNION {[1..n -> LabelChars] : n \in 0..MaxLabelLen}}

InitNormalize ==
    /\ InitRest
    /\ revision = 3
    /\ \E l \in Labels :
          probe = [fn |-> "normalize", class_name |-> l, returned |-> <<>>]

\* normalize_class_name applied to the label, then to its own result
NormalizeCall ==
    /\ probe.fn = "normalize"
    /\ Len(probe.returned) < 2
    /\ LET arg == IF probe.returned = <<>> THEN probe.class_name
                  ELSE probe.returned[Len(probe.returned)]
       IN  probe' = [probe EXCEPT !.returned = Append(@, normalize_class_name(arg))]
    /\ UNCHANGED <<frameVars, ctlVars>>

NextNormalize == NormalizeCall

SpecNormalize == InitNormalize /\ [][NextNormalize]_vars

\* ---------------------------------------------- the jump check on bboxes
\* the track update of one track from the tracker's bbox, for each of the
\* three class definitions: the first and the last record the centre y of
\* the bbox, the second records its bottom edge y2 but still compares the
\* centre with last_position
ClassDefinitions == {1, 2, 3}

\* bboxes as <<y1, y2>>, top and bottom edge; y1 + y2 is even
BboxTops == {0, 60}

BboxBottoms == {100, 160, 220}

Bboxes == BboxTops \X BboxBottoms

CenterY(bbox) == (bbox[1] + bbox[2]) \div 2

\* the coordinate appended to the history and stored in last_position
RecordedY(definition, bbox) ==
    IF definition = 2 THEN bbox[2] ELSE CenterY(bbox)

\* the status after the jump check and the assignment to last_position
JumpUpdate(definition, st, bbox) ==
    [JumpCheck(st, CenterY(bbox)) EXCEPT
        !.last_position = RecordedY(definition, bbox)]

NoBbox == <<NoneVal, NoneVal>>

InitJump ==
    /\ InitRest
    /\ revision = 3
    /\ \E d \in ClassDefinitions :
          probe = [fn |-> "jump", definition |-> d, frames |-> 0,
                   bbox |-> NoBbox, updated |-> NewStatus, status |-> NewStatus]

\* one frame of the track: the track update, then the evaluator, which may
\* mark the track when suspicious_jumps is at most 1
JumpFrame ==
    /\ probe.fn = "jump"
    /\ probe.frames < MaxFramesJump
    /\ \E bbox \in Bboxes, marks \in BOOLEAN :
          LET u == JumpUpdate(probe.definition, probe.status, bbox)
          IN  probe' = [probe EXCEPT
                           !.frames = @ + 1,
                           !.bbox = bbox,
                           !.updated = u,
                           !.status =
                               IF marks /\ u.suspicious_jumps <= suspicious_jumps_allowed
                               THEN [u EXCEPT !.crossed_during_red = TRUE]
                               ELSE u]
    /\ UNCHANGED <<frameVars, ctlVars>>

NextJump == JumpFrame

SpecJump == InitJump /\ [][NextJump]_vars

\* ---------------------------------------------- a slowly moving vehicle
\* one vehicle in every frame, moving by a pixel or two between frames, so
\* that its movement lies on either side of both thresholds; no traffic light
SlowYs == {0, 1, 2, 3}

SlowFrame ==
    /\ frame_count < MaxFramesSlow
    /\ \E tracks \in [TrackIds -> SlowYs] : FramePass(tracks, <<>>, NoneVal)
    /\ UNCHANGED <<emitted, frame_lights, ctlVars, probe>>

NextSlow == SlowFrame

SpecSlow == InitVisible /\ [][NextSlow]_vars

\* ---------------------------------------------- the controller, scheduled
\* the same calls and threads; the worker thread is not held up for ever
\* while it has a step to take
SpecResume == Init /\ [][NextThreads]_vars /\ WF_vars(ThreadsWorker)

\* ---------------------------------------------- detections drawn on the frame
\* Between the evaluator and the light resolver the pass draws one box per
\* detection and looks for the track each vehicle detection belongs to.
\* Boxes are 40 wide and 40 high; a track's box is centred on its center_y.
MatchIds == {1, 2}

MatchYs == {0, 40}

MatchBox(center_y) ==
    [x1 |-> 0, y1 |-> center_y - 20, x2 |-> 40, y2 |-> center_y + 20]

VehicleLabels == {"car", "truck", "bus", "motorcycle", "van", "bicycle"}

\* a vehicle on a track, a vehicle near one, a vehicle far from every track,
\* and a traffic light
MatchDets ==
    {[label |-> "car", bbox |-> MatchBox(y)] : y \in {0, 30, 200}}
        \cup {[label |-> "traffic light", bbox |-> MatchBox(200)]}

Max(a, b) == IF a > b THEN a ELSE b

\* intersection and union areas of two boxes: iou = inter / union
Overlap(a, b) ==
    LET ix1 == Max(a.x1, b.x1)
        iy1 == Max(a.y1, b.y1)
        ix2 == Min(a.x2, b.x2)
        iy2 == Min(a.y2, b.y2)
        inter == IF ix2 > ix1 /\ iy2 > iy1 THEN (ix2 - ix1) * (iy2 - iy1) ELSE 0
        areas == (a.x2 - a.x1) * (a.y2 - a.y1) + (b.x2 - b.x1) * (b.y2 - b.y1)
    IN  IF inter > 0 /\ areas - inter > 0
        THEN [inter |-> inter, union |-> areas - inter]
        ELSE [inter |-> 0, union |-> 1]

\* four times the squared distance between the centres of two boxes
CenterDistance_Sq4(a, b) ==
    LET dx == (a.x1 + a.x2) - (b.x1 + b.x2)
        dy == (a.y1 + a.y2) - (b.y1 + b.y2)
    IN  dx * dx + dy * dy

\* is_good_match = (iou > 0.3) or (center_distance < 60 and iou > 0.1)
IsGoodMatch(iou, dist_sq4) ==
    \/ 10 * iou.inter > 3 * iou.union
    \/ dist_sq4 < 4 * 60 * 60 /\ 10 * iou.inter > iou.union

NoMatch == [id |-> NoneVal, iou |-> [inter |-> 0, union |-> 1], dist_sq4 |-> NoneVal]

\* iou > best_iou or (iou == best_iou and center_distance < best_distance);
\* best_distance starts at infinity
BetterMatch(iou, dist_sq4, best) ==
    LET l == iou.inter * best.iou.union
        r == best.iou.inter * iou.union
    IN  \/ l > r
        \/ l = r /\ (best.dist_sq4 = NoneVal \/ dist_sq4 < best.dist_sq4)

\* for i, tracked in enumerate(tracked_vehicles): the tracks in list order
RECURSIVE BestMatchFrom(_, _, _, _)
BestMatchFrom(tv, order, bbox, best) ==
    IF order = <<>> THEN best
    ELSE LET t    == Head(order)
             box  == MatchBox(tv[t].center_y)
             iou  == Overlap(bbox, box)
             d    == CenterDistance_Sq4(bbox, box)
             next == IF IsGoodMatch(iou, d) /\ BetterMatch(iou, d, best)
                     THEN [id |-> t, iou |-> iou, dist_sq4 |-> d]
                     ELSE best
         IN  BestMatchFrom(tv, Tail(order), bbox, next)

\* the tracker reports its tracks in the order of their ids
RECURSIVE ListOrder(_)
ListOrder(ids) ==
    IF ids = {} THEN <<>>
    ELSE LET m == CHOOSE x \in ids : \A y \in ids : x <= y
         IN  <<m>> \o ListOrder(ids \ {m})

\* what the drawing of one detection takes from the tracks
MatchDetection(tv, det) ==
    LET best == IF det.label \in VehicleLabels /\ DOMAIN tv # {}
                THEN BestMatchFrom(tv, ListOrder(DOMAIN tv), det.bbox, NoMatch)
                ELSE NoMatch
        found == best.id # NoneVal
        moving == found /\ tv[best.id].is_moving
        violating == found /\ tv[best.id].is_violation
    IN  [vehicle_id |-> best.id,
         is_moving_vehicle |-> moving,
         is_violating_vehicle |-> violating,
         box_color |-> IF violating THEN "red"
                       ELSE IF moving THEN "orange"
                       ELSE IF det.label \in VehicleLabels /\ found THEN "green"
                       ELSE IF det.label = "traffic light" THEN "red"
                       ELSE "green"]

\* (mutant) the drawing stamps the matched track as violating
TracksAfterMatch_Stamped(tv, drawn) ==
    [t \in DOMAIN tv |->
        IF t = drawn.vehicle_id THEN [tv[t] EXCEPT !.is_violation = TRUE] ELSE tv[t]]

\* best_match is only read (best_match['id'], .get('is_moving'),
\* .get('is_violation')): the list of tracks is left as it was
TracksAfterMatch(tv, drawn) == tv

\* the tracker's output of a frame: track 1 in view, track 2 parked or absent
MatchTracks ==
    {[t \in S |-> IF t = 1 THEN y ELSE 40] : S \in {{1}, {1, 2}}, y \in MatchYs}

\* the pass down to the list of violation records
MatchEvaluate ==
    /\ probe = NoProbe
    /\ frame_count < MaxFramesMatch
    /\ \E tracks \in MatchTracks, lights \in StopLights, d1, d2 \in MatchDets :
          /\ FrameEvaluate(tracks, lights, StopLine)
          /\ frame_lights' = lights
          /\ probe' = [fn |-> "draw", detections |-> <<d1, d2>>, drawn |-> <<>>]
    /\ UNCHANGED <<latest_traffic_light, emitted, ctlVars>>

\* for det in filtered_detections: one detection matched and drawn
Associate ==
    /\ probe.fn = "draw"
    /\ probe.detections # <<>>
    /\ LET drawn == MatchDetection(tracked_vehicles, Head(probe.detections))
       IN  /\ tracked_vehicles' = TracksAfterMatch(tracked_vehicles, drawn)
           /\ probe' = [probe EXCEPT !.detections = Tail(@),
                                     !.drawn = Append(@, drawn)]
    /\ UNCHANGED <<revision, frame_count, vehicle_history, vehicle_statuses,
                   latest_traffic_light, has_traffic_lights, violation_line_y,
                   violations, violating_vehicle_ids, emitted, frame_lights>>
    /\ UNCHANGED ctlVars

\* the traffic-light draw loop and the consensus that end the pass
MatchResolve ==
    /\ probe.fn = "draw"
    /\ probe.detections = <<>>
    /\ latest_traffic_light' = ResolveLight(latest_traffic_light, frame_lights)
    /\ probe' = NoProbe
    /\ UNCHANGED <<revision, frame_count, vehicle_history, vehicle_statuses,
                   has_traffic_lights, violation_line_y, tracked_vehicles,
                   violations, violating_vehicle_ids, emitted, frame_lights>>
    /\ UNCHANGED ctlVars

NextMatch == MatchEvaluate \/ Associate \/ MatchResolve

SpecMatch == Init /\ [][NextMatch]_vars

\* ---------------------------------------------- a track that jumps about
\* one track, in view or not, at positions that are a large jump or a short
\* move apart; a classified light and the line in every frame
ErraticFrame ==
    /\ frame_count < MaxFramesErratic
    /\ \E tracks \in FrameTracks, lights \in StopLights :
          FramePass(tracks, lights, StopLine)
    /\ UNCHANGED <<emitted, frame_lights, ctlVars, probe>>

NextErratic == ErraticFrame

SpecErratic == Init /\ [][NextErratic]_vars

\* ---------------------------------------------- sessions
\* start() and stop() around a loop that processes whole frames: one vehicle
\* is tracked in every frame, and after each start() the tracker numbers its
\* tracks from 1 again
SessionOpen == OpenAttempt /\ cap' = "open"

SessionFrame ==
    /\ pc = "read"
    /\ running
    /\ \A t \in DOMAIN vehicle_history : Len(vehicle_history[t]) < MaxFramesSession
    /\ \E tracks \in [TrackIds -> MatchYs], lights \in StopLights :
          FramePass(tracks, lights, StopLine)
    /\ UNCHANGED <<emitted, frame_lights, ctlVars, probe>>

\* the loop condition fails after stop()
SessionEnd == ~running /\ ReadFrame

NextSession ==
    \/ Start \/ Stop \/ StopWait \/ StopClear
    \/ SessionOpen \/ SessionFrame \/ SessionEnd

SpecSession == Init /\ [][NextSession]_vars

TypeOK ==
    /\ revision \in Revisions
    /\ frame_count \in Nat
    /\ DOMAIN vehicle_history = DOMAIN vehicle_statuses
    /\ DOMAIN tracked_vehicles \subseteq DOMAIN vehicle_history
    /\ latest_traffic_light.color \in Colors

\* ================================================================== claims
\* what the claims say, stated without the operators of the frame pass

\* some pair of consecutive samples inside the scanned window goes from above
\* the line to on or below it
HasCrossing(h, line) ==
    \E i \in 1..(Min(crossing_check_window, Len(h)) - 1) :
        h[Len(h) - i] < line /\ line <= h[Len(h) - i + 1]

\* the last n items of a sequence
LastN(s, n) ==
    IF Len(s) <= n THEN s ELSE [i \in 1..n |-> s[Len(s) - n + i]]

IsJump(a, b) == Abs(a - b) > max_position_jump

\* the frame pass now ending had no traffic light or no violation line
NoLightOrLineNow == ~has_traffic_lights' \/ violation_line_y' = NoneVal

\* the frame pass now ending ran the evaluator
EvaluatedNow ==
    has_traffic_lights' /\ violation_line_y' # NoneVal /\ DOMAIN tracked_vehicles' # {}

\* ids with per-track state before and after the frame pass
Surviving == DOMAIN vehicle_statuses \cap DOMAIN vehicle_statuses'

C2_RecordIff ==
    [][EvaluatedNow =>
          \A t \in DOMAIN tracked_vehicles' :
              /\ t \in violating_vehicle_ids' <=>
                    /\ HasCrossing(vehicle_history'[t], violation_line_y')
                    /\ tracked_vehicles'[t].is_moving
                    /\ latest_traffic_light.color = "red"
                    /\ vehicle_statuses'[t].suspicious_jumps <= 1
              /\ t \in violating_vehicle_ids' <=>
                    \E r \in violations' : r.track_id = t]_vars

\* a record was emitted in the last frame
C2_Witness ==
    \E r \in violations :
        /\ r.track_id \in violating_vehicle_ids
        /\ tracked_vehicles[r.track_id].is_moving
        /\ HasCrossing(vehicle_history[r.track_id], violation_line_y)

\* ---- C3
\* C3: in the end-to-end scenario exactly one record has been emitted once the
\* ten frames are processed.
C3_ExactlyOneRecord ==
    frame_count >= Scenario.frames => emitted = 1

\* ---- C4
\* C4: in the end-to-end scenario track 7 is not flagged is_violation on frame
\* 9 or on any later frame.
C4_NoViolationAfterRed ==
    frame_count > Scenario.red_frames =>
        ~tracked_vehicles[Scenario.track].is_violation

\* ---- C5
\* the frame pass now ending records the third of three consecutive large
\* jumps of track t, the one that takes the track's count past 2
ThirdJumpNow(t) ==
    LET h == vehicle_history[t]
        n == Len(h)
    IN  /\ t \in DOMAIN vehicle_statuses
        /\ t \in DOMAIN tracked_vehicles'
        /\ vehicle_statuses[t].suspicious_jumps = 2
        /\ n >= 3
        /\ IsJump(h[n - 1], h[n - 2])
        /\ IsJump(h[n], h[n - 1])
        /\ IsJump(tracked_vehicles'[t].center_y, h[n])

\* C5: in the frame of a track's third consecutive large jump its
\* crossed_during_red is false afterwards and no record is emitted for it.
C5_JumpSuppression ==
    [][\A t \in TrackIds :
          ThirdJumpNow(t) =>
              /\ ~vehicle_statuses'[t].crossed_during_red
              /\ t \notin violating_vehicle_ids']_vars

\* ---- C6
\* C6: when the evaluator runs and the colour it reads is not red, every track
\* it evaluates has crossed_during_red false afterwards.
C6_NotRedClears ==
    [][EvaluatedNow /\ latest_traffic_light.color # "red" =>
          \A t \in DOMAIN tracked_vehicles' :
              ~vehicle_statuses'[t].crossed_during_red]_vars

\* the evaluator ran and read a colour other than red (the track is moving
\* with a crossing in its window, yet the newest violation_history entry is
\* false) for a track that was actively crossing in an earlier evaluation
C6_Witness ==
    /\ has_traffic_lights
    /\ violation_line_y # NoneVal
    /\ \E t \in DOMAIN tracked_vehicles :
          /\ LET vh == vehicle_statuses[t].violation_history
             IN  Len(vh) > 0 /\ ~vh[Len(vh)]
          /\ tracked_vehicles[t].is_moving
          /\ HasCrossing(vehicle_history[t], violation_line_y)
          /\ \E i \in DOMAIN vehicle_statuses[t].violation_history :
                vehicle_statuses[t].violation_history[i]
          /\ ~vehicle_statuses[t].crossed_during_red

\* ---- C7
\* C7: at every frame boundary a track with crossed_during_red true implies a
\* stored light colour of red.
C7_CrossedOnlyWhileRed ==
    \A t \in DOMAIN vehicle_statuses :
        vehicle_statuses[t].crossed_during_red => latest_traffic_light.color = "red"

\* ---- C8
\* C8: at the end of every frame, for every track of the frame, is_violation
\* equals crossed_during_red and stored colour red.
C8_FlagIsCrossedAndRed ==
    \A t \in DOMAIN tracked_vehicles :
        tracked_vehicles[t].is_violation
            <=> (vehicle_statuses[t].crossed_during_red
                 /\ latest_traffic_light.color = "red")

\* ---- C9
\* C9: after every frame vehicle_history and vehicle_statuses hold exactly the
\* ids the tracker reported in that frame.
C9_OnlyVisibleTracks ==
    /\ DOMAIN vehicle_history = DOMAIN tracked_vehicles
    /\ DOMAIN vehicle_statuses = DOMAIN tracked_vehicles

\* ---- C10
\* the samples a steadily driving track has recorded by frame k are
\* 0, v, 2v, ..., (k-1)v, and its movement flags are False, False, True, ...
LongHistoryIsRecent(t) ==
    LET h == vehicle_history[t]
        n == Len(h)
        v == IF n >= 2 THEN h[n] - h[n - 1] ELSE 0
        m == vehicle_statuses[t].recent_movement
    IN  /\ n = Min(frame_count, position_history_size)
        /\ \A i \in 1..n : h[i] = (frame_count - n + i - 1) * v
        /\ Len(m) = Min(frame_count, 4)
        /\ \A i \in 1..Len(m) : m[i] <=> (frame_count - Len(m) + i >= 3)

HistoriesBounded ==
    \A t \in DOMAIN vehicle_history :
        /\ Len(vehicle_history[t]) <= 20
        /\ Len(vehicle_statuses[t].recent_movement) <= 4
        /\ Len(vehicle_statuses[t].violation_history) <= 5

\* each update appends at the end and, beyond the capacity, drops the front
FifoStep ==
    \A t \in Surviving \cap DOMAIN tracked_vehicles' :
        LET old == vehicle_statuses[t]
            new == vehicle_statuses'[t]
        IN  /\ vehicle_history'[t] =
                  LastN(Append(vehicle_history[t], tracked_vehicles'[t].center_y), 20)
            /\ \E b \in BOOLEAN :
                  new.recent_movement = LastN(Append(old.recent_movement, b), 4)
            /\ IF EvaluatedNow
               THEN \E b \in BOOLEAN :
                       new.violation_history = LastN(Append(old.violation_history, b), 5)
               ELSE new.violation_history = old.violation_history

\* C10: position_history holds at most 20 samples, recent_movement at most 4,
\* violation_history at most 5; each is in temporal order and, once full,
\* holds exactly the most recent samples.
C10_BoundedFifo ==
    /\ [](HistoriesBounded /\ \A t \in DOMAIN vehicle_history : LongHistoryIsRecent(t))
    /\ [][FifoStep]_vars

\* more frames have passed than the position history holds, and the other two
\* histories are full as well
C10_Witness ==
    \E t \in DOMAIN vehicle_history :
        /\ frame_count > position_history_size + 1
        /\ Len(vehicle_history[t]) = position_history_size
        /\ vehicle_history[t][1] > 0
        /\ Len(vehicle_statuses[t].recent_movement) = 4
        /\ Len(vehicle_statuses[t].violation_history) = 5
        /\ \E i \in 1..5 : vehicle_statuses[t].violation_history[i]

\* ---- C12
\* the pairs of consecutive samples the scan examines, counted from the newest
ExaminedPairs(h) == 1..(Min(crossing_check_window, Len(h)) - 1)

Qualifies(h, line, i) == h[Len(h) - i] < line /\ line <= h[Len(h) - i + 1]

\* C12: the scan reports a crossing exactly when some examined pair has
\* prev < line <= curr, and then it reports the most recent such pair with
\* its prev_y and curr_y.
C12_ScanFindsLatestCrossing ==
    (probe.fn = "scan" /\ probe.returned) =>
        LET h == probe.position_history
            line == probe.violation_line_y
            d == probe.crossing_details
            found == {i \in ExaminedPairs(h) : Qualifies(h, line, i)}
        IN  /\ d.frames_ago # 0 <=> found # {}
            /\ found # {} =>
                  /\ d.frames_ago \in found
                  /\ \A i \in found : d.frames_ago <= i
                  /\ d.prev_y = h[Len(h) - d.frames_ago]
                  /\ d.curr_y = h[Len(h) - d.frames_ago + 1]

\* the scan has reported the newer of two qualifying pairs
C12_Witness ==
    /\ probe.fn = "scan" /\ probe.returned
    /\ LET h == probe.position_history
           line == probe.violation_line_y
       IN  /\ Cardinality({i \in ExaminedPairs(h) : Qualifies(h, line, i)}) >= 2
           /\ probe.crossing_details.frames_ago = 2
           /\ probe.crossing_details.prev_y = 20
           /\ probe.crossing_details.curr_y = 30

\* ---- C13
\* indices of the last frame's lights that carry the colour red
RedLightsOfFrame ==
    {i \in 1..Len(frame_lights) :
        frame_lights[i].classified /\ frame_lights[i].color = "red"}

C14_NoRedKeepsState ==
    [][(frame_lights' # <<>> /\ frame_count' = frame_count + 1
          /\ \A i \in 1..Len(frame_lights') :
                ~(frame_lights'[i].classified /\ frame_lights'[i].color = "red"))
       => latest_traffic_light' = latest_traffic_light]_vars

\* ---- C15
\* C15: a frame with no traffic-light detection leaves the stored light
\* state, colour and confidence, as it was.
C15_NoLightKeepsState ==
    [][(frame_count' = frame_count + 1 /\ frame_lights' = <<>>)
       => latest_traffic_light' = latest_traffic_light]_vars

\* a frame without lights has passed over a stored red
C15_Witness ==
    /\ frame_count >= 2
    /\ frame_lights = <<>>
    /\ ~has_traffic_lights
    /\ latest_traffic_light = [color |-> "red", confidence |-> 2]

\* ---- C11
\* C11: a frame in which an external collaborator raised does not end the
\* processing loop.
C11_FailureContained ==
    last_failure # "none" => halt_reason # "exception"

\* ---- C16
OpenIsBounded ==
    /\ open_attempts <= 2 * max_retries
    /\ ~(source_type = "camera" /\ os_name = "nt") => open_attempts <= max_retries

OpenFailedState ==
    /\ error_status = 1
    /\ frames_read = 0
    /\ current_frame = NoneVal
    /\ pc = "none"

\* C16: the source is opened at most 3 times per backend; once every attempt
\* has failed the run has emitted exactly one error status, has read no
\* frame and leaves the controller not running.
C16_BoundedOpen ==
    /\ [](OpenIsBounded /\ (halt_reason = "open_failed" => OpenFailedState))
    /\ [][(halt_reason' = "open_failed" /\ halt_reason # "open_failed")
             => (~running' /\ open_attempts' \in {max_retries, 2 * max_retries})]_vars

\* both backends of a camera on Windows were tried three times in vain
C16_Witness ==
    /\ halt_reason = "open_failed"
    /\ open_attempts = 2 * max_retries
    /\ error_status = 1
    /\ ~running

\* ---- C17
\* what a step does to the count of consecutive read failures
ReadErrorStep ==
    /\ (halt_reason' = "read_errors" /\ halt_reason # "read_errors") =>
          /\ frame_error_count = max_consecutive_errors - 1
          /\ frame_error_count' = max_consecutive_errors
          /\ read_failures' = read_failures + 1
    /\ frames_read' = frames_read + 1 => frame_error_count' = 0
    /\ (read_failures' = read_failures + 1
          /\ frame_error_count' < max_consecutive_errors) =>
          /\ frame_error_count' = frame_error_count + 1
          /\ pc' = "read"
          /\ running'
          /\ halt_reason' = "none"

\* C17: the loop is halted by read failures only at the 10th consecutive
\* one; a successful read sets the count of consecutive failures to zero and
\* a failed read below the threshold leaves the loop running.
C17_ConsecutiveErrorsOnly ==
    /\ [](pc \in {"read", "detect", "lock", "store", "pass"}
             => frame_error_count < max_consecutive_errors)
    /\ [][ReadErrorStep]_vars

\* more than ten reads have failed, nine of them in a row before a good
\* one, and the loop is still running
C17_Witness ==
    /\ read_failures > max_consecutive_errors
    /\ frames_read >= 1
    /\ frame_error_count >= 1
    /\ pc = "read"
    /\ running
    /\ halt_reason = "none"

\* ---- C18
\* C18: a run halted by the read-error threshold has emitted the terminal
\* error status that a run whose source cannot be opened emits.
C18_SameTerminalStatus ==
    halt_reason = "read_errors" => error_status = 1

\* ---- C19
\* C19: whatever start(), stop(), play(), pause() and set_source() calls are
\* made, at most one execution of the processing loop is in progress.
C19_OneLoopAtATime ==
    /\ active_runs <= 1
    /\ active_runs = 1 <=> thread = "run"
    /\ pc # "none" <=> thread = "run"

\* a loop is processing a frame after set_source stopped the controller and
\* started it again
C19_Witness ==
    /\ source_type = "camera"
    /\ gui = GuiIdle
    /\ running
    /\ thread = "run"
    /\ active_runs = 1
    /\ pc = "pass"

\* ---- C20
\* C20: the display slot does not change between a reader's check of it and
\* the reader's use of it, neither for the render callback nor for
\* capture_snapshot.
C20_GuardedSlot ==
    [][(snap_pc = "checked" \/ render_pc = "locked")
          => current_frame' = current_frame]_vars

\* ---- C21
\* the per-track state is that of wholly processed frames: every track's
\* last_position is its newest sample and each of its lists has one entry per
\* sample recorded (the evaluator ran in every frame of these runs)
WholeFramesOnly ==
    /\ DOMAIN vehicle_statuses = DOMAIN vehicle_history
    /\ \A t \in DOMAIN vehicle_history :
          LET h == vehicle_history[t]
              st == vehicle_statuses[t]
          IN  /\ st.last_position = h[Len(h)]
              /\ Len(st.recent_movement) = Min(Len(h), recent_movement_size)
              /\ Len(st.violation_history) = Min(Len(h), violation_history_size)

\* C21: once stop() has returned, vehicle_history and vehicle_statuses
\* reflect only wholly processed frames, also when stop() terminated the
\* thread.
C21_StopLeavesWholeFrames ==
    (gui = GuiIdle /\ ~running /\ thread = "idle") => WholeFramesOnly

\* ---- C22
\* the canonical names and the names each one stands for
CanonicalNames ==
    {<<"t","r","a","f","f","i","c"," ","l","i","g","h","t">>, <<"c","a","r">>,
     <<"t","r","u","c","k">>, <<"b","u","s">>,
     <<"m","o","t","o","r","c","y","c","l","e">>, <<"p","e","r","s","o","n">>}

SynonymsOf(canonical) ==
    CHOOSE S \in {TrafficLightNames, CarNames, TruckNames, BusNames,
                  MotorcycleNames, PersonNames} : canonical \in S

\* two strings are the same but for the case of their letters
SameIgnoringCase(a, b) ==
    /\ Len(a) = Len(b)
    /\ \A i \in 1..Len(a) :
          \/ a[i] = b[i]
          \/ \E k \in 1..26 :
                {a[i], b[i]} = {UpperLetters[k], LowerLetters[k]}

\* C22: normalizing a normalized label changes nothing; a label that is a
\* synonym in any letter case gives the canonical name, any other label is
\* returned unchanged, an empty or missing one gives the empty string.
C22_NormalizeIdempotent ==
    probe.fn = "normalize" =>
        LET l == probe.class_name
            r == probe.returned
            mapped == {c \in CanonicalNames :
                          \E w \in SynonymsOf(c) : SameIgnoringCase(w, l.chars)}
        IN  /\ Len(r) >= 1 =>
                  /\ (l.missing \/ l.chars = <<>>) => r[1] = Str(<<>>)
                  /\ (~l.missing /\ mapped # {}) => \E c \in mapped : r[1] = Str(c)
                  /\ (~l.missing /\ l.chars # <<>> /\ mapped = {}) => r[1] = l
            /\ Len(r) = 2 => r[2] = r[1]

\* an unmapped label with capital letters, a synonym in mixed case and a
\* missing label have each been normalized twice
C22_Witness ==
    /\ probe.fn = "normalize"
    /\ Len(probe.returned) = 2
    /\ \/ probe.class_name = Str(<<"C", "a", "b">>)
          /\ probe.returned[2] = Str(<<"C", "a", "b">>)
       \/ probe.class_name = Str(<<"T", "l">>)
          /\ probe.returned[2] =
                Str(<<"t","r","a","f","f","i","c"," ","l","i","g","h","t">>)

\* ---- C23
\* the colour the evaluator of the frame pass now ending read as red or not,
\* as far as the state shows it: for a moving track with a crossing in its
\* window the newest violation_history entry is the evaluator's is_red_light
ReadRedNow(t) ==
    LET vh == vehicle_statuses'[t].violation_history
    IN  vh[Len(vh)]

\* C23: the evaluator of a frame reads the light state as that frame's
\* detections leave it, so its is_red_light is whether the state after the
\* frame's light resolution is red.
C23_EvaluatorReadsThisFrame ==
    [][EvaluatedNow =>
          \A t \in DOMAIN tracked_vehicles' :
              (/\ HasCrossing(vehicle_history'[t], violation_line_y')
               /\ tracked_vehicles'[t].is_moving)
              => (ReadRedNow(t) <=> latest_traffic_light'.color = "red")]_vars

\* ---- C24
\* C24: in a frame where the evaluator runs and the stored light is red
\* before and after it, a record is emitted for every moving track with
\* suspicious_jumps at most 1 that has a qualifying transition in its scan
\* window, whether or not a record was emitted for that transition before.
C24_NoDeduplication ==
    [][(/\ EvaluatedNow
        /\ latest_traffic_light.color = "red"
        /\ latest_traffic_light'.color = "red")
       => \A t \in DOMAIN tracked_vehicles' :
             (/\ tracked_vehicles'[t].is_moving
              /\ vehicle_statuses'[t].suspicious_jumps <= 1
              /\ HasCrossing(vehicle_history'[t], violation_line_y'))
             => /\ t \in violating_vehicle_ids'
                /\ \E r \in violations' :
                      /\ r.track_id = t
                      /\ r.movement.prev_y < violation_line_y'
                      /\ r.movement.curr_y >= violation_line_y']_vars

\* a record has been emitted for a transition at least two frames old, for a
\* track that was actively crossing (and, with no jump since, recorded) in
\* the frame before as well
C24_Witness ==
    \E r \in violations :
        LET t == r.track_id
            h == vehicle_history[t]
            vh == vehicle_statuses[t].violation_history
        IN  /\ r.movement.frames_ago >= 2
            /\ Len(vh) >= 2 /\ vh[Len(vh)] /\ vh[Len(vh) - 1]
            /\ ~IsJump(h[Len(h)], h[Len(h) - 1])
            /\ latest_traffic_light.color = "red"

\* ---- C25
\* C25: over a history of at least 9 samples the scan reports a crossing
\* exactly when one of the 8 most recent pairs of consecutive samples,
\* the oldest of them included, has prev < line <= curr.
C25_EightPairsExamined ==
    (probe.fn = "scan" /\ probe.returned /\ Len(probe.position_history) >= 9) =>
        LET h == probe.position_history
            line == probe.violation_line_y
        IN  probe.crossing_details.frames_ago # 0
                <=> \E i \in 1..crossing_check_window : Qualifies(h, line, i)

\* ---- C26
\* crossed_during_red of track t is true after the step and was not before
\* it (a track first seen in the step had no flag before)
BecomesCrossed(t) ==
    /\ t \in DOMAIN vehicle_statuses'
    /\ vehicle_statuses'[t].crossed_during_red
    /\ t \in DOMAIN vehicle_statuses => ~vehicle_statuses[t].crossed_during_red

\* C26: crossed_during_red becomes true only in a frame whose evaluator runs
\* and finds the track actively crossing (crossing in the window, moving,
\* light read as red) with suspicious_jumps at most 1.
C26_OnlyTheEvaluatorMarks ==
    [][\A t \in TrackIds :
          BecomesCrossed(t) =>
              /\ EvaluatedNow
              /\ t \in DOMAIN tracked_vehicles'
              /\ HasCrossing(vehicle_history'[t], violation_line_y')
              /\ tracked_vehicles'[t].is_moving
              /\ latest_traffic_light.color = "red"
              /\ vehicle_statuses'[t].suspicious_jumps <= 1]_vars

\* a track with one suspicious jump has just been marked: it was found
\* actively crossing for the first time in its last evaluation
C26_Witness ==
    \E t \in DOMAIN tracked_vehicles :
        LET vh == vehicle_statuses[t].violation_history
        IN  /\ vehicle_statuses[t].crossed_during_red
            /\ vehicle_statuses[t].suspicious_jumps = 1
            /\ Len(vh) \in 2..4
            /\ vh[Len(vh)]
            /\ \A i \in 1..(Len(vh) - 1) : ~vh[i]

\* ---- C27
\* the stored light colour is red before and after the frame pass
StaysRed ==
    latest_traffic_light.color = "red" /\ latest_traffic_light'.color = "red"

\* the track update of the frame pass now ending counted the track's third
\* suspicious jump
ThirdSuspiciousJumpNow(t) ==
    /\ vehicle_statuses[t].suspicious_jumps = suspicious_jumps_reset
    /\ IsJump(tracked_vehicles'[t].center_y, vehicle_statuses[t].last_position)

\* C27 as stated: a crossed_during_red that is true stays true over every
\* frame in which the track is present and the stored light stays red.
C27_StickyWhileRed ==
    [][StaysRed =>
          \A t \in Surviving \cap DOMAIN tracked_vehicles' :
              vehicle_statuses[t].crossed_during_red
                  => vehicle_statuses'[t].crossed_during_red]_vars

\* C27 amended: a crossed_during_red that is true stays true over every frame
\* in which the track is present and the stored light stays red, unless the
\* frame brings the track's third suspicious jump.
C27_StickyUnlessThirdJump ==
    [][StaysRed =>
          \A t \in Surviving \cap DOMAIN tracked_vehicles' :
              (vehicle_statuses[t].crossed_during_red /\ ~ThirdSuspiciousJumpNow(t))
                  => vehicle_statuses'[t].crossed_during_red]_vars

\* the evaluator has found a marked track actively crossing with two
\* suspicious jumps: it emitted no record and did not mark the track, the
\* flag is the one set in an earlier frame
C27_Witness ==
    \E t \in DOMAIN tracked_vehicles :
        LET vh == vehicle_statuses[t].violation_history
        IN  /\ vehicle_statuses[t].crossed_during_red
            /\ latest_traffic_light.color = "red"
            /\ vehicle_statuses[t].suspicious_jumps = 2
            /\ Len(vh) >= 2 /\ vh[Len(vh)]
            /\ t \notin violating_vehicle_ids

\* ---- C28
\* C28: on the update of a known track, with jump the distance between the
\* bottom edge of this frame's bbox and that of the previous frame's,
\* suspicious_jumps is incremented exactly when jump > max_position_jump,
\* and when it then exceeds 2 crossed_during_red is false and
\* suspicious_jumps is 0 afterwards; otherwise the flag is untouched.
C28_JumpOnBottomEdge ==
    [][(probe.fn = "jump" /\ probe.frames >= 1 /\ probe'.frames = probe.frames + 1) =>
          LET old  == probe.status
              new  == probe'.updated
              jump == Abs(probe'.bbox[2] - probe.bbox[2])
          IN  /\ old.last_position = probe.bbox[2]
              /\ IF jump > max_position_jump
                 THEN IF old.suspicious_jumps + 1 > 2
                      THEN new.suspicious_jumps = 0 /\ ~new.crossed_during_red
                      ELSE /\ new.suspicious_jumps = old.suspicious_jumps + 1
                           /\ new.crossed_during_red = old.crossed_during_red
                 ELSE /\ new.suspicious_jumps = old.suspicious_jumps
                      /\ new.crossed_during_red = old.crossed_during_red]_vars

\* ---- C29
\* movement_detected as the claim defines it, with threshold = 1.5:
\* d > 1.5 is 2d > 3, and d > 1.5 x 1.5 = 2.25 is 4d > 9
MovementOf(h) ==
    \/ Len(h) >= 3 /\ 2 * Abs(h[Len(h)] - h[Len(h) - 2]) > 3
    \/ Len(h) >= 5 /\ 4 * Abs(h[Len(h)] - h[Len(h) - 4]) > 9

\* C29: after each track update the movement_detected of the claim is
\* appended to recent_movement, of which the last 4 entries are kept, and
\* is_moving is true iff recent_movement has at least 2 entries and at least
\* half of them are true.
C29_MovementClassification ==
    [][\A t \in DOMAIN tracked_vehicles' :
          LET old == IF t \in DOMAIN vehicle_statuses
                     THEN vehicle_statuses[t].recent_movement ELSE <<>>
              new == vehicle_statuses'[t].recent_movement
              trues == Cardinality({i \in 1..Len(new) : new[i]})
          IN  /\ new = LastN(Append(old, MovementOf(vehicle_history'[t])), 4)
              /\ tracked_vehicles'[t].is_moving
                    <=> (Len(new) >= 2 /\ 2 * trues >= Len(new))]_vars

\* the vehicle moved by 1 pixel over the last 3 samples and by 3 over the
\* last 5: movement was detected by the longer comparison alone; exactly two
\* of the four recent entries are true, which makes the vehicle moving
C29_Witness ==
    \E t \in DOMAIN tracked_vehicles :
        LET h == vehicle_history[t]
            n == Len(h)
            m == vehicle_statuses[t].recent_movement
        IN  /\ n >= 5
            /\ Abs(h[n] - h[n - 2]) = 1
            /\ Abs(h[n] - h[n - 4]) = 3
            /\ Len(m) = 4 /\ m[4] /\ ~m[3] /\ m[2] /\ ~m[1]
            /\ tracked_vehicles[t].is_moving

\* ---- C30
\* C30: once start() or play() has set the controller running again after
\* _run returned without stop() (the thread idles in its event loop), the
\* thread executes _run again, as it must for frames to be read, unless the
\* controller is stopped or paused first.
C30_RestartResumes ==
    (running /\ thread = "events") ~> (thread = "run" \/ ~running)

\* ---- C31
\* the step is the return of a set_source call
SetSourceReturnsNow == gui.at = "configure" /\ gui'.at = "idle"

AssociatesNow == probe.fn = "draw" /\ probe.detections # <<>>

\* C32: the association of a detection to the tracks, done for the drawing,
\* changes no violation state: vehicle_history, vehicle_statuses, every
\* track's flags and the frame's violation records and violating ids are the
\* same after the step as before it, whether or not a track was matched.
C32_AssociationReadsOnly ==
    [][AssociatesNow =>
          /\ vehicle_history' = vehicle_history
          /\ vehicle_statuses' = vehicle_statuses
          /\ tracked_vehicles' = tracked_vehicles
          /\ violations' = violations
          /\ violating_vehicle_ids' = violating_vehicle_ids]_vars

\* in one frame a detection was matched to a track that is not flagged while
\* a violation record stands, and another detection found no track
C32_Witness ==
    /\ probe.fn = "draw"
    /\ Len(probe.drawn) = 2
    /\ probe.drawn[1].vehicle_id = 2
    /\ ~probe.drawn[1].is_violating_vehicle
    /\ probe.drawn[2].vehicle_id = NoneVal
    /\ violations # {}
    /\ \E t \in DOMAIN tracked_vehicles : tracked_vehicles[t].is_violation


\* ---------------------------------------------------------------- C33
\* the track loop of the first frame after start() has run: start() resets
\* frame_count and the tracker, so the ids it reports are first appearances
\* (the sessions before it have left whole frames only)
FirstTrackLoopOfSession ==
    pc = "pass" /\ frame_count = 0 /\ pc' = "status" /\ WholeFramesOnly

\* C33: after start() or set_source() has reset the tracker, the first
\* appearance of a track id starts from the default state: its history holds
\* the new position only, it has no suspicious jump and no crossing flag.
C33_NothingInherited ==
    [][FirstTrackLoopOfSession =>
          \A t \in DOMAIN vehicle_history' :
              /\ Len(vehicle_history'[t]) = 1
              /\ vehicle_statuses'[t].suspicious_jumps = 0
              /\ ~vehicle_statuses'[t].crossed_during_red
              /\ vehicle_statuses'[t].recent_movement = <<>>]_vars


\* ---------------------------------------------------------------- C34
\* the frame pass now ending moved track t by a large jump
LargeJumpNow(t) ==
    IsJump(tracked_vehicles'[t].center_y, vehicle_statuses[t].last_position)

\* a violation record of the frame names track t
RecordedNow(t) ==
    t \in violating_vehicle_ids' \/ \E v \in violations' : v.track_id = t

\* C34: while a track lives, its suspicious_jumps goes down only by the reset
\* at the third large jump; a track that stands at 2 large jumps and makes no
\* further one keeps the count, does not become crossed_during_red and gets
\* no violation record, however it moves.
C34_TwoJumpsSuppress ==
    [][\A t \in DOMAIN vehicle_statuses \cap DOMAIN vehicle_statuses' :
          LET before == vehicle_statuses[t].suspicious_jumps
              after  == vehicle_statuses'[t].suspicious_jumps
              seen   == frame_count' = frame_count + 1
                            /\ t \in DOMAIN tracked_vehicles'
          IN  /\ \/ after >= before
                 \/ seen /\ before = suspicious_jumps_reset /\ LargeJumpNow(t)
                         /\ after = 0
              /\ (before = suspicious_jumps_reset /\ ~(seen /\ LargeJumpNow(t)))
                    => /\ after = suspicious_jumps_reset
                       /\ ~BecomesCrossed(t)
                       /\ ~RecordedNow(t)]_vars

\* a track at 2 large jumps was found actively crossing (moving over the line
\* on red) in a frame without a further jump, and nothing was recorded
C34_Witness ==
    /\ 1 \in DOMAIN tracked_vehicles
    /\ 1 \in DOMAIN vehicle_statuses
    /\ LET st == vehicle_statuses[1]
           h  == vehicle_history[1]
       IN  /\ st.suspicious_jumps = suspicious_jumps_reset
           /\ Len(h) >= 2
           /\ ~IsJump(h[Len(h)], h[Len(h) - 1])
           /\ tracked_vehicles[1].is_moving
           /\ st.violation_history # <<>>
           /\ st.violation_history[Len(st.violation_history)]
           /\ ~st.crossed_during_red
    /\ violations = {}
    /\ violating_vehicle_ids = {}


\* ---------------------------------------------------------------- C35
\* a track state with fewer than 4 recorded frames since line 808 created it
\* is not classified as moving, is not crossed_during_red and has no
\* violation record
FirstThreeSamplesQuiet ==
    \A t \in DOMAIN vehicle_history :
        Len(vehicle_history[t]) < recent_movement_size =>
            /\ t \in DOMAIN tracked_vehicles => ~tracked_vehicles[t].is_moving
            /\ ~vehicle_statuses[t].crossed_during_red
            /\ t \notin violating_vehicle_ids
            /\ \A v \in violations : v.track_id # t

\* one of the first three frames of a session is processed: every track of
\* the frame was created by the tracker in this session
EarlyFrameOfSession ==
    pc = "read" /\ running /\ frame_count < 3 /\ frame_count' = frame_count + 1

\* C35: a newly created track is not classified as moving before its 4th
\* frame: in the first three frames of a session no track is moving, none
\* is crossed_during_red and no violation record is emitted.
C35_QuietFirstFrames ==
    [][EarlyFrameOfSession =>
          /\ \A t \in DOMAIN tracked_vehicles' :
                /\ ~tracked_vehicles'[t].is_moving
                /\ ~vehicle_statuses'[t].crossed_during_red
          /\ violations' = {}
          /\ violating_vehicle_ids' = {}]_vars

\* ---------------------------------------------------------------- C36
\* C36: at the end of every frame each track named by a violation record of
\* the frame is crossed_during_red and is_violation: the violating ids are
\* among the tracks flagged as violating.
C36_RecordedAreFlagged ==
    /\ \A v \in violations : v.track_id \in violating_vehicle_ids
    /\ \A t \in violating_vehicle_ids :
          /\ t \in DOMAIN tracked_vehicles
          /\ tracked_vehicles[t].is_violation
          /\ t \in DOMAIN vehicle_statuses
          /\ vehicle_statuses[t].crossed_during_red

\* a record was emitted for a crossing found two frames back in the window
C36_Witness ==
    /\ violating_vehicle_ids = {1}
    /\ \E v \in violations : v.track_id = 1 /\ v.movement.frames_ago = 2
    /\ tracked_vehicles[1].is_violation
    /\ vehicle_statuses[1].crossed_during_red

\* ---------------------------------------------------------------- C37
\* the processing loop is over with this step: _run returns or its thread is
\* terminated
LoopEndsNow == pc # "none" /\ pc' = "none"

\* C37: when the processing loop has terminated, for any reason including an
\* exception inside a frame, the capture is not left open and _running is
\* false.
C37_ReleasedWhenOver ==
    [][LoopEndsNow => ~running' /\ cap' # "open"]_vars

\* ---------------------------------------------------------------- C38
\* the render callback executes one of its self.mutex.unlock() calls
RenderUnlocksNow == render_pc # "idle" /\ render_pc' # render_pc

\* C38: an invocation of the render callback unlocks the mutex once, for the
\* lock it took: whenever it calls unlock it is the holder of the mutex.
C38_UnlocksItsOwnLock ==
    [][RenderUnlocksNow => mutex = "render"]_vars
====
